---- MODULE Spec2Model ----
(***************************************************************************)
(* Model of ball_ramps.py: a ball rolling down six static ramps.  The     *)
(* controller (class Control) owns a physics space, six Ramp objects and  *)
(* one Ball object; Control.update is the main loop.                      *)
(*                                                                         *)
(* Physics coordinates are floats in the program.  They are modelled in   *)
(* fixed point: a coordinate c of the program is the integer c * Scale,   *)
(* so that fractional positions exist and int() (truncation toward zero)  *)
(* is a real conversion.  Screen coordinates are plain integers.          *)
(* The physics engine and the event queue are the environment: a step     *)
(* moves the bodies that are in the space to any position of a bounded    *)
(* set, and events are posted to the queue at any time.                   *)
(***************************************************************************)
EXTENDS Integers, Sequences, FiniteSets

\* ---------------------------------------------------------------- bounds
Scale == 2
MaxResets == 2
MaxEvents == 2

\* ------------------------------------------------------------- constants
SCREEN_SIZE == <<800, 600>>
START_X == 100
START_Y == 500
BALL_RADIUS == 14
RAMP_WIDTH == 23

EventTypes == {"QUIT", "KEYDOWN", "KEYUP"}

RampNames == <<"ramp 1", "ramp 2", "ramp 3", "ramp 4", "ramp 5", "ramp 6">>

VARIABLES
  pc,           \* position of the main thread in Control.update
  done,         \* Control.done
  keys,         \* Control.keys: TRUE iff the snapshot has a pressed key
  ball,         \* the Ball object referenced by Control.ball
  ramps,        \* Control.ramps
  space,        \* Control.space: what has been added to the physics space
  screen,       \* draw commands issued on Control.screen since the last fill
  event_queue,  \* pygame's pending events
  iter_ops,     \* calls made so far by the current iteration of the loop
  checked,      \* what the bounds check of the current iteration read
  last_updated, \* id of the Ball instance Ball.update last ran on
  quit_posted   \* a QUIT event has been posted at some time

vars == <<pc, done, keys, ball, ramps, space, screen, event_queue,
          iter_ops, checked, last_updated, quit_posted>>

\* ------------------------------------------------------------ conversions

\* python's int() on a float: truncation toward zero
int(v) == IF v >= 0 THEN v \div Scale ELSE -((-v) \div Scale)

\* Ball.update, lines 29-30
Ball_update_noflip(b) ==
  [b EXCEPT !.has_xy = TRUE,
            !.x = int(b.position[1]),
            !.y = int(b.position[2])]

Ball_update(b) ==
  [b EXCEPT !.has_xy = TRUE,
            !.x = int(b.position[1]),
            !.y = int(b.position[2] * (-1) + SCREEN_SIZE[2] * Scale)]

\* Ball.__init__: a new instance, no x / y attribute yet
Ball(id, x, y) ==
  [id |-> id, position |-> <<x * Scale, y * Scale>>,
   has_xy |-> FALSE, x |-> 0, y |-> 0]

\* Ramp.set_dimensions: position of the body and the segment's a, b
set_dimensions(name) ==
  CASE name = "ramp 1" ->
         [position |-> <<200 * Scale, 400 * Scale>>,
          a |-> <<-150 * Scale, 100 * Scale>>, b |-> <<150 * Scale, 0>>]
    [] name = "ramp 2" ->
         [position |-> <<550 * Scale, 350 * Scale>>,
          a |-> <<-150 * Scale, 0>>, b |-> <<150 * Scale, 100 * Scale>>]
    [] name = "ramp 3" ->
         [position |-> <<200 * Scale, 300 * Scale>>,
          a |-> <<-150 * Scale, 100 * Scale>>, b |-> <<150 * Scale, 0>>]
    [] name = "ramp 4" ->
         [position |-> <<550 * Scale, 250 * Scale>>,
          a |-> <<-150 * Scale, 0>>, b |-> <<150 * Scale, 100 * Scale>>]
    [] name = "ramp 5" ->
         [position |-> <<200 * Scale, 200 * Scale>>,
          a |-> <<-150 * Scale, 100 * Scale>>, b |-> <<150 * Scale, 0>>]
    [] name = "ramp 6" ->
         [position |-> <<550 * Scale, 150 * Scale>>,
          a |-> <<-150 * Scale, 0>>, b |-> <<150 * Scale, 100 * Scale>>]

\* Ramp.__init__
Ramp(name) ==
  [name |-> name,
   position |-> set_dimensions(name).position,
   a |-> set_dimensions(name).a,
   b |-> set_dimensions(name).b]

\* Ramp.convert_to_pg_coordinates
convert_to_pg_coordinates_noflip(pos) == <<int(pos[1]), int(pos[2])>>

convert_to_pg_coordinates(pos) ==
  <<int(pos[1]), int(-pos[2] + SCREEN_SIZE[2] * Scale)>>

\* Ramp.draw: the draw command it issues
Ramp_draw(ramp) ==
  [kind |-> "lines",
   pts |-> <<convert_to_pg_coordinates(<<ramp.position[1] + ramp.a[1],
                                         ramp.position[2] + ramp.a[2]>>),
             convert_to_pg_coordinates(<<ramp.position[1] + ramp.b[1],
                                         ramp.position[2] + ramp.b[2]>>)>>,
   width |-> RAMP_WIDTH]

\* Ball.draw: the draw command it issues
Ball_draw(b) ==
  [kind |-> "circle", pts |-> <<<<b.x, b.y>>>>, width |-> BALL_RADIUS]

\* ------------------------------------------------------------ environment

\* positions a physics step can leave the ball at (fixed point): left of,
\* on and right of the screen, above, on and below it, whole and fractional
StepX == {-Scale, -1, START_X * Scale, 800 * Scale + 1, 801 * Scale}
StepY == {601 * Scale, 600 * Scale + 1, START_Y * Scale, -1, -Scale}
StepPositions == StepX \X StepY
RestPositions == {<<START_X * Scale, START_Y * Scale>>}

\* the order of the calls in the body of the loop of Control.update
LoopOrder_UpdateFirst ==
  <<"get_user_input", "ball_update", "step", "draw",
    "check_if_ball_off_screen", "tick">>

LoopOrder_DrawFirst ==
  <<"get_user_input", "step", "draw", "ball_update",
    "check_if_ball_off_screen", "tick">>

LoopOrder ==
  <<"get_user_input", "step", "ball_update", "draw",
    "check_if_ball_off_screen", "tick">>

After(op) ==
  LET i == CHOOSE k \in 1..Len(LoopOrder) : LoopOrder[k] = op
  IN  IF i = Len(LoopOrder) THEN "while" ELSE LoopOrder[i + 1]

\* ------------------------------------------------------------------ Init

\* Control.__init__, add_ramps_to_space, add_ball_to_space
Init ==
  /\ pc = "while"
  /\ done = FALSE
  /\ keys = FALSE
  /\ ramps = [i \in 1..6 |-> Ramp(RampNames[i])]
  /\ ball = Ball(0, START_X, START_Y)
  /\ space = [bodies |-> {0}, shapes |-> {0},
              static_shapes |-> {RampNames[i] : i \in 1..6}]
  /\ screen = <<>>
  /\ event_queue = <<>>
  /\ iter_ops = <<>>
  /\ checked = [read |-> FALSE, x |-> 0, y |-> 0, reset |-> 0]
  /\ last_updated = -1
  /\ quit_posted = FALSE

\* --------------------------------------------------------------- actions

\* the window system posts an event
PostEvent ==
  /\ pc # "exited"
  /\ Len(event_queue) < MaxEvents
  /\ \E e \in EventTypes :
       /\ event_queue' = Append(event_queue, e)
       /\ quit_posted' = (quit_posted \/ e = "QUIT")
  /\ UNCHANGED <<pc, done, keys, ball, ramps, space, screen, iter_ops,
                 checked, last_updated>>

\* line 128: while not self.done; lines 173-175 when the loop is left
LoopTest ==
  /\ pc = "while"
  /\ IF done
       THEN /\ pc' = "exited"
            /\ UNCHANGED <<iter_ops, checked>>
       ELSE /\ pc' = LoopOrder[1]
            /\ iter_ops' = <<>>
            /\ checked' = [read |-> FALSE, x |-> 0, y |-> 0, reset |-> 0]
  /\ UNCHANGED <<done, keys, ball, ramps, space, screen, event_queue,
                 last_updated, quit_posted>>

RECURSIVE HasType(_, _)
HasType(q, t) ==
  IF q = <<>> THEN FALSE ELSE Head(q) = t \/ HasType(Tail(q), t)

\* Control.get_user_input: every pending event is taken from the queue
get_user_input_KeyQuits ==
  /\ pc = "get_user_input"
  /\ done' = (done \/ HasType(event_queue, "QUIT")
                   \/ HasType(event_queue, "KEYDOWN"))
  /\ IF HasType(event_queue, "KEYDOWN") \/ HasType(event_queue, "KEYUP")
       THEN \E k \in BOOLEAN : keys' = k
       ELSE keys' = keys
  /\ event_queue' = <<>>
  /\ iter_ops' = Append(iter_ops, "get_user_input")
  /\ pc' = After("get_user_input")
  /\ UNCHANGED <<ball, ramps, space, screen, checked, last_updated,
                 quit_posted>>

get_user_input_BreakOnQuit ==
  /\ pc = "get_user_input"
  /\ done' = (done \/ HasType(event_queue, "QUIT"))
  /\ IF HasType(event_queue, "KEYDOWN") \/ HasType(event_queue, "KEYUP")
       THEN \E k \in BOOLEAN : keys' = k
       ELSE keys' = keys
  /\ event_queue' = <<>>
  /\ iter_ops' = Append(iter_ops, "get_user_input")
  /\ pc' = IF done' THEN "while" ELSE After("get_user_input")
  /\ UNCHANGED <<ball, ramps, space, screen, checked, last_updated,
                 quit_posted>>

get_user_input ==
  /\ pc = "get_user_input"
  /\ done' = (done \/ HasType(event_queue, "QUIT"))
  /\ IF HasType(event_queue, "KEYDOWN") \/ HasType(event_queue, "KEYUP")
       THEN \E k \in BOOLEAN : keys' = k
       ELSE keys' = keys
  /\ event_queue' = <<>>
  /\ iter_ops' = Append(iter_ops, "get_user_input")
  /\ pc' = After("get_user_input")
  /\ UNCHANGED <<ball, ramps, space, screen, checked, last_updated,
                 quit_posted>>

\* lines 130-132: screen.fill, space.step.  The step moves the bodies that
\* are in the space; the ramps' bodies were never added to it.
step ==
  /\ pc = "step"
  /\ screen' = <<>>
  /\ IF ball.id \in space.bodies
       THEN \E p \in (IF ball.id < MaxResets THEN StepPositions
                                             ELSE RestPositions) :
              ball' = [ball EXCEPT !.position = p]
       ELSE ball' = ball
  /\ iter_ops' = Append(iter_ops, "step")
  /\ pc' = After("step")
  /\ UNCHANGED <<done, keys, ramps, space, event_queue, checked,
                 last_updated, quit_posted>>

\* line 133: self.ball.update()
ball_update ==
  /\ pc = "ball_update"
  /\ ball' = Ball_update(ball)
  /\ last_updated' = ball.id
  /\ iter_ops' = Append(iter_ops, "ball_update")
  /\ pc' = After("ball_update")
  /\ UNCHANGED <<done, keys, ramps, space, screen, event_queue, checked,
                 quit_posted>>

\* Control.draw: the ball, then the six ramps.  Reading an attribute that
\* was never set raises AttributeError, which ends the process.
draw ==
  /\ pc = "draw"
  /\ IF ball.has_xy
       THEN /\ screen' = screen \o <<Ball_draw(ball)>>
                                \o [i \in 1..6 |-> Ramp_draw(ramps[i])]
            /\ iter_ops' = Append(iter_ops, "draw")
            /\ pc' = After("draw")
       ELSE /\ pc' = "crashed"
            /\ UNCHANGED <<screen, iter_ops>>
  /\ UNCHANGED <<done, keys, ball, ramps, space, event_queue, checked,
                 last_updated, quit_posted>>

\* Control.reset_ball_position
reset_ball_position_NoRemove ==
  /\ ball' = Ball(ball.id + 1, START_X, START_Y)
  /\ space' = [space EXCEPT !.bodies = @ \cup {ball.id + 1},
                            !.shapes = @ \cup {ball.id + 1}]

reset_ball_position_ClearSpace ==
  /\ ball' = Ball(ball.id + 1, START_X, START_Y)
  /\ space' = [bodies |-> {ball.id + 1}, shapes |-> {ball.id + 1},
               static_shapes |-> {}]

reset_ball_position_Reposition ==
  /\ ball' = [ball EXCEPT !.position = <<START_X * Scale, START_Y * Scale>>]
  /\ space' = space

reset_ball_position ==
  /\ ball' = Ball(ball.id + 1, START_X, START_Y)
  /\ space' = [space EXCEPT
                 !.bodies = (@ \ {ball.id}) \cup {ball.id + 1},
                 !.shapes = (@ \ {ball.id}) \cup {ball.id + 1}]

\* Control.check_if_ball_off_screen
check_if_ball_off_screen_NoElif ==
  /\ pc = "check_if_ball_off_screen"
  /\ IF ~ball.has_xy
       THEN /\ pc' = "crashed"
            /\ UNCHANGED <<ball, space, iter_ops, checked>>
       ELSE /\ IF ball.x > SCREEN_SIZE[1] \/ ball.x < 0
                 THEN /\ reset_ball_position
                      /\ checked' = [read |-> TRUE, x |-> ball.x,
                                     y |-> ball.y, reset |-> 1]
                 ELSE /\ UNCHANGED <<ball, space>>
                      /\ checked' = [read |-> TRUE, x |-> ball.x,
                                     y |-> ball.y, reset |-> 0]
            /\ iter_ops' = Append(iter_ops, "check_if_ball_off_screen")
            /\ pc' = After("check_if_ball_off_screen")
  /\ UNCHANGED <<done, keys, ramps, screen, event_queue, last_updated,
                 quit_posted>>

check_if_ball_off_screen ==
  /\ pc = "check_if_ball_off_screen"
  /\ IF ~ball.has_xy
       THEN /\ pc' = "crashed"
            /\ UNCHANGED <<ball, space, iter_ops, checked>>
       ELSE /\ IF ball.x > SCREEN_SIZE[1] \/ ball.x < 0
                 THEN /\ reset_ball_position
                      /\ checked' = [read |-> TRUE, x |-> ball.x,
                                     y |-> ball.y, reset |-> 1]
                 ELSE IF ball.y > SCREEN_SIZE[2] \/ ball.y < 0
                 THEN /\ reset_ball_position
                      /\ checked' = [read |-> TRUE, x |-> ball.x,
                                     y |-> ball.y, reset |-> 1]
                 ELSE /\ UNCHANGED <<ball, space>>
                      /\ checked' = [read |-> TRUE, x |-> ball.x,
                                     y |-> ball.y, reset |-> 0]
            /\ iter_ops' = Append(iter_ops, "check_if_ball_off_screen")
            /\ pc' = After("check_if_ball_off_screen")
  /\ UNCHANGED <<done, keys, ramps, screen, event_queue, last_updated,
                 quit_posted>>

\* lines 136-137: display.update, clock.tick
tick ==
  /\ pc = "tick"
  /\ iter_ops' = Append(iter_ops, "tick")
  /\ pc' = After("tick")
  /\ UNCHANGED <<done, keys, ball, ramps, space, screen, event_queue,
                 checked, last_updated, quit_posted>>

\* the steps of the program's only thread
Program ==
  \/ LoopTest
  \/ get_user_input
  \/ step
  \/ ball_update
  \/ draw
  \/ check_if_ball_off_screen
  \/ tick

Next ==
  \/ PostEvent
  \/ LoopTest
  \/ get_user_input
  \/ step
  \/ ball_update
  \/ draw
  \/ check_if_ball_off_screen
  \/ tick

Spec == Init /\ [][Next]_vars

\* the thread keeps running: no step of the program waits for anything but
\* the frame limiter, which returns
LiveSpec == Spec /\ WF_vars(Program)

\* ================================================================ claims

\* n is the integer part (toward zero) of the fixed-point value v
IsIntegerPart(n, v) ==
  IF v >= 0 THEN n * Scale <= v /\ v < (n + 1) * Scale
            ELSE (n - 1) * Scale < v /\ v <= n * Scale

\* the ball's cached screen position lies outside the 800 x 600 screen
CachedOff(b) == b.x < 0 \/ b.x > 800 \/ b.y < 0 \/ b.y > 600

\* the bounds check is about to return normally
CheckActs == pc = "check_if_ball_off_screen" /\ pc' = "tick"

\* the level as written in the source, in whole units:
\* <<position, offset a, offset b>> of ramp 1 .. ramp 6
Level ==
  <<  <<<<200, 400>>, <<-150, 100>>, <<150, 0>>>>,
      <<<<550, 350>>, <<-150, 0>>, <<150, 100>>>>,
      <<<<200, 300>>, <<-150, 100>>, <<150, 0>>>>,
      <<<<550, 250>>, <<-150, 0>>, <<150, 100>>>>,
      <<<<200, 200>>, <<-150, 100>>, <<150, 0>>>>,
      <<<<550, 150>>, <<-150, 0>>, <<150, 100>>>>  >>

Times(p) == <<p[1] * Scale, p[2] * Scale>>

\* C1: in every state from construction on, whatever the physics step did,
\* the space holds exactly one ball body and one circle shape, and they are
\* those of the instance Control.ball refers to.
C1_OneBall ==
  /\ space.bodies = {ball.id}
  /\ space.shapes = {ball.id}
  /\ Cardinality(space.bodies) = 1
  /\ Cardinality(space.shapes) = 1

\* an iteration that reset the ball has completed its bounds check
C1_Witness == pc = "tick" /\ checked.reset = 1 /\ ball.id >= 1

\* C2: the six ramp shapes stay in the space, and every ramp keeps the
\* position and the segment endpoints it was constructed with, after any
\* number of iterations and resets.
C2_RampsFixed ==
  /\ space.static_shapes =
       {"ramp 1", "ramp 2", "ramp 3", "ramp 4", "ramp 5", "ramp 6"}
  /\ Len(ramps) = 6
  /\ \A i \in 1..6 :
       /\ ramps[i].position = Times(Level[i][1])
       /\ ramps[i].a = Times(Level[i][2])
       /\ ramps[i].b = Times(Level[i][3])

\* a later iteration begins after the ball has been reset
C2_Witness == pc = "while" /\ ball.id >= 1 /\ Len(iter_ops) = 6

\* C3: the bounds check resets the ball iff the cached x is outside [0, 800]
\* or the cached y is outside [0, 600]; a reset is performed once (one new
\* instance), also when both are out of range; when both are in range the
\* ball and the space are unchanged.
C3_ResetIff ==
  [][CheckActs =>
       /\ (CachedOff(ball) <=> ball'.id # ball.id)
       /\ (CachedOff(ball) => ball'.id = ball.id + 1)
       /\ (~CachedOff(ball) => ball' = ball /\ space' = space)]_vars

\* the check has just reset a ball whose x and y were both out of range
C3_Witness ==
  /\ pc = "tick" /\ checked.read /\ checked.reset = 1
  /\ checked.x < 0 /\ checked.y > 600

\* C4: a bounds check on an off-screen cached position leaves exactly one
\* ball in the space, a new instance (the old body and shape are out of the
\* space), at (100, 500) in physics space, which is screen (100, 100).
C4_ResetFresh ==
  [][(CheckActs /\ CachedOff(ball)) =>
       /\ ball'.id # ball.id
       /\ ball.id \notin (space'.bodies \cup space'.shapes)
       /\ space'.bodies = {ball'.id}
       /\ space'.shapes = {ball'.id}
       /\ ball'.position = <<100 * Scale, 500 * Scale>>
       /\ Ball_update(ball').x = 100
       /\ Ball_update(ball').y = 100]_vars

\* the check has just reset a ball whose cached x was -1
C4_Witness ==
  /\ pc = "tick" /\ checked.read /\ checked.reset = 1 /\ checked.x = -1
  /\ ball.position = <<100 * Scale, 500 * Scale>>

\* C5: done is a two-valued state; it becomes true only in get_user_input
\* and only when a QUIT event is among the polled events; once true it
\* stays true, the loop test then leaves the loop, and nothing runs after.
C5_DoneOnlyOnQuit ==
  [][/\ done \in BOOLEAN
     /\ (done => done')
     /\ ((~done /\ done') =>
           (pc = "get_user_input" /\ HasType(event_queue, "QUIT")))
     /\ ((done /\ pc = "while") => pc' \in {"while", "exited"})
     /\ (pc = "exited" => (pc' = "exited" /\ done'))]_vars

\* the loop has been left, after key events were handled
C5_Witness == pc = "exited" /\ done /\ keys

\* C6: when the draw and when the bounds check begin, the iteration has
\* made one physics step followed by one refresh, and the cached position
\* is the conversion of the position that step produced.
C6_RefreshOrder ==
  /\ (pc = "draw" =>
        iter_ops = <<"get_user_input", "step", "ball_update">>)
  /\ (pc = "check_if_ball_off_screen" =>
        iter_ops = <<"get_user_input", "step", "ball_update", "draw">>)
  /\ (pc \in {"draw", "check_if_ball_off_screen"} =>
        /\ IsIntegerPart(ball.x, ball.position[1])
        /\ IsIntegerPart(ball.y, 600 * Scale - ball.position[2]))

\* the bounds check is about to read the position of a moved, respawned ball
C6_Witness ==
  /\ pc = "check_if_ball_off_screen" /\ ball.id >= 1
  /\ ball.position # <<100 * Scale, 500 * Scale>>

\* C7 as stated: after Ball.update the cached position is exactly
\* (px, -py + 600) for every physics position (px, py).
C7_Exact ==
  pc = "draw" =>
    /\ ball.x * Scale = ball.position[1]
    /\ ball.y * Scale = 600 * Scale - ball.position[2]

\* C7 amended: after Ball.update the cached position is (px, -py + 600)
\* truncated toward zero to integers; it is exact for whole positions, and
\* (100, 500) gives (100, 100).
C7_Truncated ==
  pc = "draw" =>
    /\ IsIntegerPart(ball.x, ball.position[1])
    /\ IsIntegerPart(ball.y, 600 * Scale - ball.position[2])
    /\ (ball.position[1] % Scale = 0 => ball.x * Scale = ball.position[1])
    /\ (ball.position[2] % Scale = 0 =>
          ball.y * Scale = 600 * Scale - ball.position[2])
    /\ (ball.position = <<100 * Scale, 500 * Scale>> =>
          (ball.x = 100 /\ ball.y = 100))

\* a ball at the fractional, negative position (-1/Scale, -1/Scale) has
\* been refreshed to (0, 600)
C7_Witness ==
  /\ pc = "draw" /\ ball.position = <<-1, -1>>
  /\ ball.x = 0 /\ ball.y = 600

\* C8: the endpoints Ramp.draw draws for each ramp are
\* (position + offset) mapped through (x, y) -> (x, -y + 600); ramp 1 is
\* drawn from (50, 100) to (350, 200).
C8_RampEndpoints ==
  pc = "check_if_ball_off_screen" =>
    /\ Len(screen) = 7
    /\ \A i \in 1..6 :
         /\ screen[i + 1].kind = "lines"
         /\ screen[i + 1].pts =
              << <<Level[i][1][1] + Level[i][2][1],
                   600 - (Level[i][1][2] + Level[i][2][2])>>,
                 <<Level[i][1][1] + Level[i][3][1],
                   600 - (Level[i][1][2] + Level[i][3][2])>> >>
    /\ screen[2].pts = << <<50, 100>>, <<350, 200>> >>

\* the six ramps have been drawn, ramp 6 from (400, 450) to (700, 350)
C8_Witness ==
  /\ pc = "check_if_ball_off_screen" /\ Len(screen) = 7
  /\ screen[7].pts = << <<400, 450>>, <<700, 350>> >>

\* C9: a ball on which Ball.update has not run has no cached position;
\* the draw and the bounds check only begin with a cached position written
\* by Ball.update on the current instance, and never fail on a missing one.
C9_CachedIsCurrent ==
  /\ (last_updated # ball.id => ~ball.has_xy)
  /\ (pc \in {"draw", "check_if_ball_off_screen"} =>
        (ball.has_xy /\ last_updated = ball.id))
  /\ pc # "crashed"

\* a respawned ball is about to be drawn
C9_Witness == pc = "draw" /\ ball.id >= 1 /\ ball.has_xy

\* C10: the iteration that polls a quit event runs to its end (step,
\* refresh, draw, bounds check, tick) before the loop is left; the loop is
\* left only if a quit event was posted; and a pending quit event leads to
\* the loop being left.
C10_QuitEndsLoop ==
  /\ []((done /\ pc \in {"while", "exited"}) =>
          iter_ops = <<"get_user_input", "step", "ball_update", "draw",
                       "check_if_ball_off_screen", "tick">>)
  /\ [](pc = "exited" => quit_posted)
  /\ [][(done /\ pc = "tick") => pc' \in {"tick", "while"}]_vars
  /\ (HasType(event_queue, "QUIT") ~> pc = "exited")

\* the loop has been left after a last iteration that reset the ball
C10_Witness == pc = "exited" /\ checked.read /\ checked.reset = 1

====
